---------------------------- MODULE Spec2Model ----------------------------
(***************************************************************************)
(* A model of crianza's middle end: the constant-fold optimizer            *)
(* (optimizer.py) and the compiler/linker with its validator               *)
(* (compiler.py).                                                          *)
(*                                                                         *)
(* Python values are records [k, v]: k is the Python type ("int", "bool",  *)
(* "str", "fn" for an instruction function, "none") and v the value.  A    *)
(* Python str is the sequence of its characters, so that slicing (a[1:-1]),*)
(* int(...), str(...) and the quoting '"%s"' are computed, not assumed.    *)
(* Tokens are strings for mnemonics, identifiers and quoted string         *)
(* literals, and ints for numbers, as the compiler's own comparisons       *)
(* (word == ":", name in builtins, c[0]==c[-1]=='"') show.                 *)
(***************************************************************************)
EXTENDS Integers, Sequences, FiniteSets, TLC

\* ------------------------------------------------------------ bounds
MaxLen == 3
MaxRewrites == 6
ExecFuel == 12

\* ------------------------------------------------------ Python values
PInt(n) == [k |-> "int", v |-> n]
PBool(b) == [k |-> "bool", v |-> b]
PStr(cs) == [k |-> "str", v |-> cs]
PFn(cs) == [k |-> "fn", v |-> cs]
PNone == [k |-> "none", v |-> 0]

\* The numeric value of an int or a bool (bool is a subclass of int).
Num(x) == IF x.k = "bool" THEN (IF x.v THEN 1 ELSE 0) ELSE x.v

\* Python's ==: numbers compare by value across int and bool, anything else
\* by type and value.
PyEq(x, y) ==
    IF x.k \in {"int", "bool"} /\ y.k \in {"int", "bool"}
    THEN Num(x) = Num(y)
    ELSE IF x.k = y.k THEN x.v = y.v ELSE FALSE

\* x in list
InList(x, list) == \E j \in 1..Len(list) : PyEq(x, list[j])

\* s[1:-1]
Slice(cs) == IF Len(cs) <= 2 THEN << >> ELSE SubSeq(cs, 2, Len(cs) - 1)

DigitChars == <<"0", "1", "2", "3", "4", "5", "6", "7", "8", "9">>
IsDigit(ch) == \E d \in 1..10 : DigitChars[d] = ch
DigitVal(ch) == (CHOOSE d \in 1..10 : DigitChars[d] = ch) - 1

RECURSIVE Digits(_)
Digits(n) == IF n < 10 THEN <<DigitChars[n + 1]>>
             ELSE Digits(n \div 10) \o <<DigitChars[(n % 10) + 1]>>

\* str(x) of an int or a bool
PyStr(x) ==
    IF x.k = "bool" THEN (IF x.v THEN <<"T", "r", "u", "e">>
                                 ELSE <<"F", "a", "l", "s", "e">>)
    ELSE IF x.v < 0 THEN <<"-">> \o Digits(0 - x.v) ELSE Digits(x.v)

\* The characters int() and str.strip() take for blanks: space, tab, newline,
\* carriage return, form feed and the vertical tab (the last written as the
\* character itself).
Whitespace == {" ", "\t", "\n", "\r", "\f", ""}

RECURSIVE LStrip(_)
LStrip(cs) == IF cs # << >> /\ Head(cs) \in Whitespace THEN LStrip(Tail(cs)) ELSE cs
RECURSIVE RStrip(_)
RStrip(cs) == IF cs # << >> /\ cs[Len(cs)] \in Whitespace
              THEN RStrip(SubSeq(cs, 1, Len(cs) - 1)) ELSE cs

RECURSIVE DigitsValue(_, _)
DigitsValue(cs, acc) == IF cs = << >> THEN acc
                        ELSE DigitsValue(Tail(cs), acc * 10 + DigitVal(Head(cs)))

\* int(s): leading blanks skipped, an optional sign, blanks again, digits
\* only, trailing blanks skipped.  [ok |-> FALSE] is ValueError.
PyInt(cs) ==
    LET t == LStrip(cs)
        signed == t # << >> /\ Head(t) \in {"+", "-"}
        ds == RStrip(LStrip(IF signed THEN Tail(t) ELSE t))
    IN  IF ds # << >> /\ \A j \in 1..Len(ds) : IsDigit(ds[j])
        THEN [ok |-> TRUE,
              n |-> IF signed /\ Head(t) = "-" THEN 0 - DigitsValue(ds, 0)
                    ELSE DigitsValue(ds, 0)]
        ELSE [ok |-> FALSE, n |-> 0]

\* bool(x) of a str (given as its characters), an int or a bool
PyBool(x) == IF x.k = "str" THEN x.v # << >> ELSE Num(x) # 0

\* '"%s"' % cs
Quote(cs) == <<"\"">> \o cs \o <<"\"">>

\* ---------------------------------------------------- instruction set
\* The instruction functions of the instructions module, each identified by
\* its mnemonic (the keys of native.py's opmap).
add == PFn(<<"+">>)
sub == PFn(<<"-">>)
mul == PFn(<<"*">>)
div == PFn(<<"/">>)
mod == PFn(<<"%">>)
bitwise_and == PFn(<<"&">>)
bitwise_or == PFn(<<"|">>)
bitwise_xor == PFn(<<"^">>)
bitwise_complement == PFn(<<"~">>)
less == PFn(<<"<">>)
greater == PFn(<<">">>)
equal == PFn(<<"=">>)
not_equal == PFn(<<"<", ">">>)
dot == PFn(<<".">>)
at == PFn(<<"@">>)
abs_ == PFn(<<"a", "b", "s">>)
binary_and == PFn(<<"a", "n", "d">>)
binary_or == PFn(<<"o", "r">>)
binary_not == PFn(<<"n", "o", "t">>)
cast_bool == PFn(<<"b", "o", "o", "l">>)
cast_int == PFn(<<"i", "n", "t">>)
cast_str == PFn(<<"s", "t", "r">>)
cast_float == PFn(<<"f", "l", "o", "a", "t">>)
call == PFn(<<"c", "a", "l", "l">>)
return_ == PFn(<<"r", "e", "t", "u", "r", "n">>)
exit == PFn(<<"e", "x", "i", "t">>)
jmp == PFn(<<"j", "m", "p">>)
if_stmt == PFn(<<"i", "f">>)
nop == PFn(<<"n", "o", "p">>)
negate == PFn(<<"n", "e", "g", "a", "t", "e">>)
drop == PFn(<<"d", "r", "o", "p">>)
dup == PFn(<<"d", "u", "p">>)
over == PFn(<<"o", "v", "e", "r">>)
rot == PFn(<<"r", "o", "t">>)
swap == PFn(<<"s", "w", "a", "p">>)
read == PFn(<<"r", "e", "a", "d">>)
write == PFn(<<"w", "r", "i", "t", "e">>)
true_ == PFn(<<"t", "r", "u", "e">>)
false_ == PFn(<<"f", "a", "l", "s", "e">>)

default_instructions ==
    {add, sub, mul, div, mod, bitwise_and, bitwise_or, bitwise_xor,
     bitwise_complement, less, greater, equal, not_equal, dot, at, abs_,
     binary_and, binary_or, binary_not, cast_bool, cast_int, cast_str,
     cast_float, call, return_, exit, jmp, if_stmt, nop, negate, drop, dup,
     over, rot, swap, read, write, true_, false_}

\* The mnemonics: the keys of Machine([]).instructions.
builtins == {f.v : f \in default_instructions}

\* instructions.lookup: a mnemonic gives its function, a function gives its
\* mnemonic; anything else fails (k = "err": the lookup's own error, which
\* is not a CompileError).
UnknownInstruction == [k |-> "err", v |-> 0]
\* The other exceptions a conversion of one item can raise: the CompileError
\* of to_bool and the IndexError of indexing an empty str.
UnknownBool == [k |-> "err", v |-> 1]
IndexError == [k |-> "err", v |-> 2]
lookup(x) ==
    IF x.k = "str" /\ x.v \in builtins THEN PFn(x.v)
    ELSE IF x.k = "fn" /\ x \in default_instructions THEN PStr(x.v)
    ELSE UnknownInstruction

\* ------------------------------------------ classification predicates
\* interpreter.isstring and friends are type inspections of the Python
\* value.  isstring holds of every str, quoted or not: _native_types must
\* test the quotes itself after isstring(c), and check(), which compile
\* applies to the materialized program, must take an unquoted native
\* string for a constant.
isstring(x) == x.k = "str"
isnumber(x) == x.k \in {"int", "bool"}
isbool(x) == x.k = "bool" \/ x = lookup(true_) \/ x = lookup(false_)
isconstant(x) == isbool(x) \/ isnumber(x) \/ isstring(x)

\* isinstance(a, int), isinstance(a, str), isinstance(a, bool)
IsInstanceInt(x) == x.k \in {"int", "bool"}
IsInstanceStr(x) == x.k = "str"
IsInstanceBool(x) == x.k = "bool"

\* ------------------------------------------------- constant evaluator
FloorDiv(x, y) == IF y > 0 THEN x \div y ELSE (0 - x) \div (0 - y)
PyMod(x, y) == x - y * FloorDiv(x, y)

\* Bitwise operators on Python's unbounded two's-complement integers.
RECURSIVE BitAnd(_, _)
BitAnd(x, y) == IF x = 0 \/ y = 0 THEN 0
                ELSE IF x = -1 THEN y
                ELSE IF y = -1 THEN x
                ELSE 2 * BitAnd(x \div 2, y \div 2) + (x % 2) * (y % 2)
RECURSIVE BitOr(_, _)
BitOr(x, y) == IF x = 0 THEN y
               ELSE IF y = 0 THEN x
               ELSE IF x = -1 \/ y = -1 THEN -1
               ELSE 2 * BitOr(x \div 2, y \div 2)
                    + (IF x % 2 = 1 \/ y % 2 = 1 THEN 1 ELSE 0)
BitXor(x, y) == BitOr(x, y) - BitAnd(x, y)

\* The machine's binary instruction f on numbers a (below the top) and b (the
\* top), with b nonzero for div and mod.  A bitwise operator on two bools
\* gives a bool, a comparison gives a bool.
BinaryOp(f, a, b) ==
    LET x == Num(a)
        y == Num(b)
        bools == a.k = "bool" /\ b.k = "bool"
    IN  CASE f = add -> PInt(x + y)
          [] f = sub -> PInt(x - y)
          [] f = mul -> PInt(x * y)
          [] f = div -> PInt(FloorDiv(x, y))
          [] f = mod -> PInt(PyMod(x, y))
          [] f = bitwise_and -> IF bools THEN PBool(a.v /\ b.v) ELSE PInt(BitAnd(x, y))
          [] f = bitwise_or -> IF bools THEN PBool(a.v \/ b.v) ELSE PInt(BitOr(x, y))
          [] f = bitwise_xor -> IF bools THEN PBool(a.v # b.v) ELSE PInt(BitXor(x, y))
          [] f = less -> PBool(x < y)
          [] f = greater -> PBool(x > y)
          [] f = equal -> PBool(x = y)

\* Machine([a, b, c], optimize=False).run().top for numbers a, b and an
\* arithmetic mnemonic c
Eval(a, b, c) == BinaryOp(lookup(c), a, b)

\* ---------------------------------------------------------- optimizer
arithmetic == <<lookup(add), lookup(bitwise_and), lookup(bitwise_or),
                lookup(bitwise_xor), lookup(div), lookup(equal),
                lookup(greater), lookup(less), lookup(mod), lookup(mul),
                lookup(sub)>>

divzero == <<lookup(div), lookup(mod)>>

\* code with the n items from index i (1-based) replaced by the items of new
Splice(code, i, n, new) ==
    SubSeq(code, 1, i - 1) \o new \o SubSeq(code, i + n, Len(code))

\* A rewrite: the rule, where it applied, the list the name code is bound to
\* afterwards, what became of the list object it was bound to before, and
\* whether the name was rebound to a new list.
Rewrite(rule, i, newcode) ==
    [kind |-> "rewrite", rule |-> rule, index |-> i, code |-> newcode,
     obj |-> newcode, rebinds |-> FALSE]
NoMatch == [kind |-> "nomatch", rule |-> "", index |-> 0, code |-> << >>,
            obj |-> << >>, rebinds |-> FALSE]
Raise == [kind |-> "raise", rule |-> "", index |-> 0, code |-> << >>,
          obj |-> << >>, rebinds |-> FALSE]
Continue == [kind |-> "continue", rule |-> "", index |-> 0, code |-> << >>,
             obj |-> << >>, rebinds |-> FALSE]

\* The zero-divisor branch of the fold rule.
ZeroDivisor(ignore_errors) == IF ignore_errors THEN Continue ELSE Raise

\* <c1> <c2> swap
SwapRule(code, i, a, b) ==
    [kind |-> "rewrite", rule |-> "swap", index |-> i,
     code |-> Splice(code, i, 3, <<b, a>>),
     obj |-> Splice(code, i, 3, << >>), rebinds |-> TRUE]

\* <constant> drop
DropRule(code, i) == Rewrite("drop", i, Splice(code, i, 2, << >>))

\* <constant> dup
DupRule(code, i, a) == Rewrite("dup", i, [code EXCEPT ![i + 1] = a])

\* "123" cast_int: the rewrite, or NoMatch on ValueError
StrIntRule(code, i, a) ==
    LET number == PyInt(Slice(a.v))
    IN  IF number.ok THEN Rewrite("strint", i, Splice(code, i, 2, <<PInt(number.n)>>))
        ELSE NoMatch

\* <constant> cast_str
ToStrRule(code, i, a) ==
    LET asstring == IF isstring(a) THEN Slice(a.v) ELSE PyStr(a)
    IN  Rewrite("tostr", i, Splice(code, i, 2, <<PStr(Quote(asstring))>>))

\* <constant> cast_bool
ToBoolRule(code, i, a) ==
    LET v == IF isstring(a) THEN PStr(Slice(a.v)) ELSE a
    IN  Rewrite("tobool", i, Splice(code, i, 2, <<PBool(PyBool(v))>>))

\* The body of the for loop at index i (1-based): the first rule, in the
\* order of the source, whose pattern matches there.
MatchAt(code, i, ignore_errors) ==
    LET a == code[i]
        b == IF i + 1 <= Len(code) THEN code[i + 1] ELSE PNone
        c == IF i + 2 <= Len(code) THEN code[i + 2] ELSE PNone
    IN  IF isnumber(a) /\ isnumber(b) /\ InList(c, arithmetic)
        THEN IF PyEq(b, PInt(0)) /\ InList(c, divzero)
             THEN ZeroDivisor(ignore_errors)
             ELSE Rewrite("fold", i, Splice(code, i, 3, <<Eval(a, b, c)>>))
        ELSE IF isconstant(a) /\ PyEq(b, lookup(dup))
        THEN DupRule(code, i, a)
        ELSE IF isconstant(a) /\ PyEq(b, lookup(drop))
        THEN DropRule(code, i)
        ELSE IF IsInstanceInt(a) /\ PyEq(b, lookup(cast_int))
        THEN Rewrite("intint", i, Splice(code, i + 1, 1, << >>))
        ELSE IF IsInstanceStr(a) /\ PyEq(b, lookup(cast_str))
        THEN Rewrite("strstr", i, Splice(code, i + 1, 1, << >>))
        ELSE IF IsInstanceBool(a) /\ PyEq(b, lookup(cast_bool))
        THEN Rewrite("boolbool", i, Splice(code, i + 1, 1, << >>))
        ELSE IF isconstant(a) /\ isconstant(b) /\ PyEq(c, lookup(swap))
        THEN SwapRule(code, i, a, b)
        ELSE IF isconstant(a) /\ isconstant(b) /\ PyEq(c, lookup(over))
        THEN Rewrite("over", i, [code EXCEPT ![i + 2] = a])
        ELSE IF isstring(a) /\ PyEq(b, lookup(cast_int)) /\ StrIntRule(code, i, a).kind = "rewrite"
        THEN StrIntRule(code, i, a)
        ELSE IF isconstant(a) /\ PyEq(b, lookup(cast_str))
        THEN ToStrRule(code, i, a)
        ELSE IF isconstant(a) /\ PyEq(b, lookup(cast_bool))
        THEN ToBoolRule(code, i, a)
        ELSE NoMatch

\* A pass that takes the match at the highest index instead of the lowest.
ScanHighest(code, i, ignore_errors) ==
    LET hits == {j \in i..Len(code) :
                    MatchAt(code, j, ignore_errors).kind \in {"rewrite", "raise"}}
    IN  IF hits = {} THEN NoMatch
        ELSE MatchAt(code, CHOOSE j \in hits : \A h \in hits : h <= j, ignore_errors)

\* One pass of the for loop from index i: the first index at which a rule
\* rewrites (break) or raises; NoMatch when the loop runs to the end.
RECURSIVE Scan(_, _, _)
\* what the loop does with the outcome m of its body at index i
ScanNext(code, i, ignore_errors, m) ==
    IF m.kind \in {"rewrite", "raise"} THEN m
    ELSE Scan(code, i + 1, ignore_errors)

Scan(code, i, ignore_errors) ==
    IF i > Len(code) THEN NoMatch
    ELSE ScanNext(code, i, ignore_errors, MatchAt(code, i, ignore_errors))

\* constant_fold as a function: [status, code, arg], status "ok" (returned
\* code), "raise" (CompileError) or "hang" (the while loop revisits a
\* sequence it has already scanned, and so never ends); arg is what the
\* list object the caller passed in holds at that point.  caller is that
\* object's content so far and aliased whether the name code is still bound
\* to it.
RECURSIVE FoldFrom(_, _, _, _, _)
\* what the while loop does with the outcome m of one run of the for loop
FoldNext(code, ignore_errors, seen, caller, aliased_, m) ==
    CASE m.kind = "nomatch" -> [status |-> "ok", code |-> code, arg |-> caller]
      [] m.kind = "raise" -> [status |-> "raise", code |-> code, arg |-> caller]
      [] OTHER ->
           LET obj == IF aliased_ THEN m.obj ELSE caller
           IN  IF m.code \in seen \cup {code}
               THEN [status |-> "hang", code |-> m.code, arg |-> obj]
               ELSE FoldFrom(m.code, ignore_errors, seen \cup {code}, obj,
                             aliased_ /\ ~m.rebinds)

FoldFrom(code, ignore_errors, seen, caller, aliased_) ==
    FoldNext(code, ignore_errors, seen, caller, aliased_,
             Scan(code, 1, ignore_errors))

constant_fold(code, ignore_errors) ==
    FoldFrom(code, ignore_errors, {}, code, TRUE)

optimized(code, ignore_errors) == constant_fold(code, ignore_errors)

\* ---------------------------------------------------------- validator
safe_lookup(op) == IF lookup(op) = UnknownInstruction THEN op ELSE lookup(op)

binary_ops == <<binary_not, binary_or, binary_and>>

\* The body of check's loop at index i: TRUE when it raises CompileError.
CheckRaisesAt(code, i) ==
    LET a == code[i]
        b == IF i + 1 <= Len(code) THEN code[i + 1] ELSE PNone
    IN  \/ ~isconstant(a) /\ lookup(a) = UnknownInstruction
        \/ isstring(a) /\ PyEq(safe_lookup(b), cast_int)
        \/ ~isbool(a) /\ InList(safe_lookup(b), binary_ops)

\* check(code): [ok |-> TRUE, code] when it returns code, else CompileError.
check(code) ==
    IF \E i \in 1..Len(code) : CheckRaisesAt(code, i)
    THEN [ok |-> FALSE, error |-> "CompileError", code |-> << >>]
    ELSE [ok |-> TRUE, error |-> "", code |-> code]

\* ----------------------------------------------------------- compiler
OPEN == PStr(<<":">>)
CLOSE == PStr(<<";">>)

\* dictionaries are functions; membership and lookup use Python's ==
InDict(x, d) == \E key \in DOMAIN d : PyEq(x, key)
Get(d, x) == d[CHOOSE key \in DOMAIN d : PyEq(x, key)]
Put(d, key, val) ==
    IF InDict(key, d)
    THEN [d EXCEPT ![CHOOSE q \in DOMAIN d : PyEq(key, q)] = val]
    ELSE (key :> val) @@ d
EmptyDict == [key \in {} |-> << >>]

\* name in builtins, or name in [":", ";"]
Reserved(name) ==
    \/ name.k = "str" /\ name.v \in builtins
    \/ name \in {OPEN, CLOSE}

\* A body closed without the return instruction.
CloseBodyNoReturn(body) == body

\* subroutine[name].append(instructions.lookup(instructions.return_))
CloseBody(body) == Append(body, lookup(return_))

\* The split loop from token i: inbody tells whether the inner loop is
\* reading the body of the subroutine name, or the outer loop main code.
\* Running out of tokens (StopIteration) ends the loop wherever it is.
RECURSIVE SplitFrom(_, _, _, _, _, _)
SplitFrom(toks, i, out, subs, inbody, name) ==
    IF i > Len(toks)
    THEN [ok |-> TRUE, output |-> out, subroutine |-> subs]
    ELSE IF ~inbody
    THEN IF PyEq(toks[i], OPEN)
         THEN IF i + 1 > Len(toks)
              THEN [ok |-> TRUE, output |-> out, subroutine |-> subs]
              ELSE IF Reserved(toks[i + 1])
              THEN [ok |-> FALSE, output |-> << >>, subroutine |-> EmptyDict]
              ELSE SplitFrom(toks, i + 2, out, Put(subs, toks[i + 1], << >>),
                             TRUE, toks[i + 1])
         ELSE SplitFrom(toks, i + 1, Append(out, toks[i]), subs, FALSE, name)
    ELSE IF PyEq(toks[i], CLOSE)
         THEN SplitFrom(toks, i + 1, out,
                        Put(subs, name, CloseBody(Get(subs, name))), FALSE, name)
         ELSE SplitFrom(toks, i + 1, out,
                        Put(subs, name, Append(Get(subs, name), toks[i])), TRUE, name)

Split(toks) == SplitFrom(toks, 1, << >>, EmptyDict, FALSE, PNone)

\* Expand subroutine words to <name> call
RECURSIVE ExpandCalls(_, _)
ExpandCalls(xs, subs) ==
    IF xs = << >> THEN << >>
    ELSE (IF InDict(Head(xs), subs) THEN <<Head(xs), lookup(call)>> ELSE <<Head(xs)>>)
         \o ExpandCalls(Tail(xs), subs)

\* Resolve all subroutine references
ResolveRefs(out, loc) ==
    [i \in 1..Len(out) |-> IF InDict(out[i], loc) THEN PInt(Get(loc, out[i])) ELSE out[i]]

\* A start address counted from 1 instead of from 0.
StartOfOneBased(out) == Len(out) + 1

\* The subroutine's start address, recorded when it is added to output.
StartOf(out) == Len(out)

IsQuoted(c) ==
    \/ c.v[1] = "\"" /\ c.v[Len(c.v)] = "\""
    \/ c.v[1] = "'" /\ c.v[Len(c.v)] = "'"

to_bool(instr) ==
    IF instr.k = "bool" THEN instr
    ELSE IF PyEq(instr, lookup(true_)) THEN PBool(TRUE)
    ELSE IF PyEq(instr, lookup(false_)) THEN PBool(FALSE)
    ELSE UnknownBool

\* One item of _native_types; k = "err" when the conversion raises: c[0] of
\* the empty str, to_bool, or lookup.
NativeItem(c) ==
    IF isstring(c) /\ c.v = << >> THEN IndexError
    ELSE IF isstring(c) /\ IsQuoted(c) THEN PStr(Slice(c.v))
    ELSE IF isbool(c) THEN to_bool(c)
    ELSE IF isnumber(c) THEN c
    ELSE lookup(c)

\* The name of the exception an item's conversion raised.
ErrorName(e) ==
    IF e = UnknownBool THEN "CompileError"
    ELSE IF e = IndexError THEN "IndexError"
    ELSE "UnknownInstruction"

\* _native_types(code): the converted list, or the error raised at the
\* first item whose conversion fails.
_native_types(xs) ==
    LET out == [i \in 1..Len(xs) |-> NativeItem(xs[i])]
        bad == {i \in 1..Len(xs) : out[i].k = "err"}
    IN  IF bad # {}
        THEN [ok |-> FALSE,
              error |-> ErrorName(out[CHOOSE i \in bad : \A j \in bad : i <= j]),
              code |-> << >>]
        ELSE [ok |-> TRUE, error |-> "", code |-> out]

\* ------------------------------------------------------------- inputs
SeqsUpTo(S, n) == UNION {[1..m -> S] : m \in 0..n}

QuotedSeven == PStr(<<"\"", "7", "\"">>)
QuotedA == PStr(<<"\"", "a", "\"">>)
NameF == PStr(<<"f">>)
NameG == PStr(<<"g">>)

\* Items given to optimized() and to check() directly.
OptAlphabet ==
    {PInt(0), PInt(1), PInt(2), QuotedSeven, QuotedA,
     lookup(true_), lookup(false_), lookup(add), lookup(div), lookup(less),
     lookup(dup), lookup(drop), lookup(swap), lookup(over),
     lookup(cast_int), lookup(cast_str), lookup(cast_bool), lookup(read)}

\* Longer sequences: the documented examples, a comparison used as a number,
\* a zero divisor whose quotient is dropped, and a jump over folded code.
Scenarios ==
    {<<PInt(2), PInt(3), lookup(add), PInt(5), lookup(mul)>>,
     <<PInt(2), PInt(3), PInt(4), lookup(add), lookup(add)>>,
     <<PInt(1), PInt(2), lookup(less), PInt(1), lookup(add)>>,
     <<PInt(5), PInt(0), lookup(div), lookup(drop)>>,
     <<PInt(4), lookup(jmp), PInt(1), lookup(drop), PInt(7)>>,
     <<PInt(1), lookup(drop), PInt(5), PInt(0), lookup(div)>>}

CodeInputs == SeqsUpTo(OptAlphabet, MaxLen) \cup Scenarios

\* Items given to check() directly: string-encoded tokens, and items in the
\* materialized form in which compile passes them (a bool, instruction
\* functions).
CheckAlphabet ==
    {PInt(1), PBool(TRUE), QuotedSeven, QuotedA, NameF,
     lookup(true_), lookup(read), lookup(cast_bool),
     lookup(cast_int), cast_int,
     lookup(binary_and), binary_and, lookup(binary_not)}

\* "true false and not"
CheckScenarios ==
    {<<lookup(true_), lookup(false_), lookup(binary_and), lookup(binary_not)>>}

CheckInputs == SeqsUpTo(CheckAlphabet, MaxLen) \cup CheckScenarios

\* Tokens given to compile(): every short sequence over TokenAlphabet, and
\* the programs that define f and then g and use them.
TokenAlphabet ==
    {OPEN, CLOSE, NameF, NameG, PInt(1), PInt(0), lookup(div), lookup(dup),
     QuotedSeven, QuotedA, lookup(cast_int), lookup(exit)}

BodyAlphabet == {NameF, NameG, PInt(1), lookup(cast_int)}

MaxBody == 2

Definition(name, body) == <<OPEN, name>> \o body \o <<CLOSE>>

Programs ==
    {Definition(NameF, b1) \o Definition(NameG, b2) \o m :
        b1 \in SeqsUpTo(BodyAlphabet, MaxBody),
        b2 \in SeqsUpTo(BodyAlphabet, MaxBody),
        m \in SeqsUpTo(BodyAlphabet, MaxBody)}

\* Longer token sequences: a definition opened inside a definition, a
\* definition named dup after a complete one, main code around a complete
\* and an unterminated definition, a call whose result is dropped (": f ;
\* f drop"), a zero divisor inside a subroutine, and
\* the documented example ": double dup + ; 4 double".
TokenScenarios ==
    {<<OPEN, NameF, OPEN, lookup(dup)>>,
     <<OPEN, NameF, OPEN, lookup(dup), CLOSE>>,
     <<OPEN, NameF, OPEN, lookup(drop), CLOSE>>,
     <<OPEN, NameF, PInt(1), CLOSE, OPEN, lookup(dup), PInt(1), CLOSE, NameF>>,
     <<PInt(1), OPEN, NameF, lookup(dup), CLOSE, PInt(0), OPEN, NameG, PInt(1)>>,
     <<OPEN, NameF, CLOSE, NameF, lookup(drop)>>,
     <<OPEN, NameF, PInt(1), CLOSE, OPEN, CLOSE, CLOSE>>,
     <<OPEN, NameF, PInt(1), PInt(0), lookup(div), CLOSE>>,
     <<OPEN, NameF, lookup(dup), lookup(add), CLOSE, PInt(4), NameF>>}

TokenInputs == SeqsUpTo(TokenAlphabet, MaxLen) \cup Programs \cup TokenScenarios

\* -------------------------------------------------------------- state
VARIABLES
    job,            \* the call being made: "opt", "check" or "compile"
    pc,             \* where the call is
    tokens,         \* the argument of the call
    ignore_errors,  \* optimized()'s flag
    optimize,       \* compile()'s flag
    arg,            \* the caller's list object given to optimized()
    code,           \* the list constant_fold's name code is bound to
    aliased,        \* whether code is still the caller's list object
    keep_running,
    nrewrites,      \* rewrites made so far (counted up to MaxRewrites)
    last,           \* the last rewrite: its rule and index
    output,
    subroutine,
    location,
    pending,        \* the subroutines compile has not yet added to output
    order,          \* the subroutines added to output, in the order taken
    symbolic,       \* output as it was before references were resolved
    steps,          \* the steps compile has completed, in order
    result,         \* the value returned
    error           \* the error raised

vars == <<job, pc, tokens, ignore_errors, optimize, arg, code, aliased,
          keep_running, nrewrites, last, output, subroutine, location,
          pending, order, symbolic, steps, result, error>>

optVars == <<arg, code, aliased, keep_running, nrewrites, last>>
compileVars == <<output, subroutine, location, pending, order, symbolic, steps>>
inputVars == <<job, tokens, ignore_errors, optimize>>

NoLast == [rule |-> "", index |-> 0]

InitCommon ==
    /\ keep_running = TRUE
    /\ nrewrites = 0
    /\ last = NoLast
    /\ subroutine = EmptyDict
    /\ location = EmptyDict
    /\ pending = {}
    /\ order = << >>
    /\ symbolic = << >>
    /\ steps = << >>
    /\ result = << >>
    /\ error = ""

\* optimized(code, ignore_errors=...) called on a list
InitOpt ==
    /\ job = "opt"
    /\ pc = "while"
    /\ tokens \in CodeInputs
    /\ ignore_errors \in BOOLEAN
    /\ optimize = TRUE
    /\ arg = tokens
    /\ code = tokens
    /\ aliased = TRUE
    /\ output = << >>
    /\ InitCommon

\* check(code) called on a list
InitCheck ==
    /\ job = "check"
    /\ pc = "check"
    /\ tokens \in CheckInputs
    /\ ignore_errors = FALSE
    /\ optimize = TRUE
    /\ arg = << >>
    /\ code = << >>
    /\ aliased = FALSE
    /\ output = tokens
    /\ InitCommon

\* compile(code, optimize=...) called on tokens
InitCompile ==
    /\ job = "compile"
    /\ pc = "split"
    /\ tokens \in TokenInputs
    /\ ignore_errors = FALSE
    /\ optimize \in BOOLEAN
    /\ arg = << >>
    /\ code = << >>
    /\ aliased = FALSE
    /\ output = << >>
    /\ InitCommon

Init == InitOpt \/ InitCheck \/ InitCompile

\* ------------------------------------------------- optimizer, stepwise
\* while keep_running: keep_running = False
LoopTop ==
    /\ job = "opt" /\ pc = "while" /\ keep_running
    /\ keep_running' = FALSE
    /\ pc' = "for"
    /\ UNCHANGED <<inputVars, arg, code, aliased, nrewrites, last,
                   compileVars, result, error>>

\* One run of the for loop: it breaks at the first rewrite, raises, or runs
\* to the end.
\* The for loop with one break that leaves keep_running unset: the pass after
\* a <constant> dup made a copy is never made.
ForLoopOutcomeNoRescan(m) ==
    CASE m.kind = "rewrite" ->
           /\ code' = m.code
           /\ arg' = IF aliased THEN m.obj ELSE arg
           /\ aliased' = (aliased /\ ~m.rebinds)
           /\ keep_running' = (m.rule # "dup")
           /\ nrewrites' = IF nrewrites < MaxRewrites THEN nrewrites + 1
                           ELSE nrewrites
           /\ last' = [rule |-> m.rule, index |-> m.index]
           /\ pc' = "while"
           /\ UNCHANGED error
      [] m.kind = "raise" ->
           /\ pc' = "raise"
           /\ error' = "CompileError"
           /\ UNCHANGED optVars
      [] OTHER ->
           /\ pc' = "while"
           /\ UNCHANGED <<optVars, error>>

\* The for loop whose fold rule breaks without setting keep_running: no
\* pass follows a fold.
ForLoopOutcomeFoldOnce(m) ==
    CASE m.kind = "rewrite" ->
           /\ code' = m.code
           /\ arg' = IF aliased THEN m.obj ELSE arg
           /\ aliased' = (aliased /\ ~m.rebinds)
           /\ keep_running' = (m.rule # "fold")
           /\ nrewrites' = IF nrewrites < MaxRewrites THEN nrewrites + 1
                           ELSE nrewrites
           /\ last' = [rule |-> m.rule, index |-> m.index]
           /\ pc' = "while"
           /\ UNCHANGED error
      [] m.kind = "raise" ->
           /\ pc' = "raise"
           /\ error' = "CompileError"
           /\ UNCHANGED optVars
      [] OTHER ->
           /\ pc' = "while"
           /\ UNCHANGED <<optVars, error>>

ForLoopOutcome(m) ==
    CASE m.kind = "rewrite" ->
           /\ code' = m.code
           /\ arg' = IF aliased THEN m.obj ELSE arg
           /\ aliased' = (aliased /\ ~m.rebinds)
           /\ keep_running' = TRUE
           /\ nrewrites' = IF nrewrites < MaxRewrites THEN nrewrites + 1
                           ELSE nrewrites
           /\ last' = [rule |-> m.rule, index |-> m.index]
           /\ pc' = "while"
           /\ UNCHANGED error
      [] m.kind = "raise" ->
           /\ pc' = "raise"
           /\ error' = "CompileError"
           /\ UNCHANGED optVars
      [] OTHER ->
           /\ pc' = "while"
           /\ UNCHANGED <<optVars, error>>

ForLoop ==
    /\ job = "opt" /\ pc = "for"
    /\ ForLoopOutcome(Scan(code, 1, ignore_errors))
    /\ UNCHANGED <<inputVars, compileVars, result>>

\* return code
Return ==
    /\ job = "opt" /\ pc = "while" /\ ~keep_running
    /\ result' = code
    /\ pc' = "ret"
    /\ UNCHANGED <<inputVars, optVars, compileVars, error>>

\* ------------------------------------------------- compiler, stepwise
SplitStep ==
    /\ job = "compile" /\ pc = "split"
    /\ LET r == Split(tokens)
       IN  IF r.ok
           THEN /\ output' = r.output
                /\ subroutine' = r.subroutine
                /\ steps' = Append(steps, "split")
                /\ pc' = "expand"
                /\ UNCHANGED error
           ELSE /\ pc' = "raise"
                /\ error' = "CompileError"
                /\ UNCHANGED <<output, subroutine, steps>>
    /\ UNCHANGED <<inputVars, optVars, location, pending, order, symbolic, result>>

ExpandStep ==
    /\ job = "compile" /\ pc = "expand"
    /\ subroutine' = [name \in DOMAIN subroutine |->
                        ExpandCalls(subroutine[name], subroutine)]
    /\ output' = ExpandCalls(output, subroutine)
    /\ steps' = Append(steps, "expand")
    /\ pc' = "terminate"
    /\ UNCHANGED <<inputVars, optVars, location, pending, order, symbolic, result,
                   error>>

\* An exit instruction added whether or not there are subroutines.
TerminateMainAlways ==
    /\ job = "compile" /\ pc = "terminate"
    /\ output' = output \o <<lookup(exit)>>
    /\ steps' = Append(steps, "terminate")
    /\ pc' = "optmain"
    /\ UNCHANGED <<inputVars, optVars, subroutine, location, pending, order,
                   symbolic, result, error>>

\* Because main code comes before subroutines, add an exit instruction
TerminateMain ==
    /\ job = "compile" /\ pc = "terminate"
    /\ output' = IF Cardinality(DOMAIN subroutine) > 0
                 THEN output \o <<lookup(exit)>> ELSE output
    /\ steps' = Append(steps, "terminate")
    /\ pc' = "optmain"
    /\ UNCHANGED <<inputVars, optVars, subroutine, location, pending, order,
                   symbolic, result, error>>

\* What an optimized() call inside compile does to the compile: it is
\* always made with ignore_errors=False.
CompileOptimized(xs) ==
    IF optimize THEN optimized(xs, FALSE)
    ELSE [status |-> "ok", code |-> xs, arg |-> xs]

OptimizeMainOutcome(r) ==
    CASE r.status = "ok" ->
           /\ output' = r.code
           /\ pending' = DOMAIN subroutine
           /\ steps' = Append(steps, "optmain")
           /\ pc' = "concat"
           /\ UNCHANGED error
      [] r.status = "raise" ->
           /\ pc' = "raise"
           /\ error' = "CompileError"
           /\ UNCHANGED <<output, pending, steps>>
      [] OTHER ->
           /\ pc' = "hang"
           /\ UNCHANGED <<output, pending, steps, error>>

OptimizeMain ==
    /\ job = "compile" /\ pc = "optmain"
    /\ OptimizeMainOutcome(CompileOptimized(output))
    /\ UNCHANGED <<inputVars, optVars, subroutine, location, order, symbolic,
                   result>>

\* One turn of the loop over subroutine.items(), whose order is the
\* dictionary's: any subroutine not yet added may come next.  optimized()
\* is given the list that is subroutine[name] and rewrites it in place.
ConcatOutcome(name, r) ==
    /\ location' = Put(location, name, StartOf(output))
    /\ subroutine' = [subroutine EXCEPT ![name] = r.arg]
    /\ CASE r.status = "ok" ->
              /\ output' = output \o r.code
              /\ pending' = pending \ {name}
              /\ order' = Append(order, name)
              /\ pc' = "concat"
              /\ UNCHANGED error
         [] r.status = "raise" ->
              /\ pc' = "raise"
              /\ error' = "CompileError"
              /\ UNCHANGED <<output, pending, order>>
         [] OTHER ->
              /\ pc' = "hang"
              /\ UNCHANGED <<output, pending, order, error>>

Concat ==
    /\ job = "compile" /\ pc = "concat" /\ pending # {}
    /\ \E name \in pending :
         ConcatOutcome(name, CompileOptimized(subroutine[name]))
    /\ UNCHANGED <<inputVars, optVars, symbolic, steps, result>>

Resolve ==
    /\ job = "compile" /\ pc = "concat" /\ pending = {}
    /\ symbolic' = output
    /\ output' = ResolveRefs(output, location)
    /\ steps' = Append(steps, "concat") \o <<"resolve">>
    /\ pc' = "native"
    /\ UNCHANGED <<inputVars, optVars, subroutine, location, pending, order,
                   result, error>>

\* _native_types(output), the argument of the call of check
NativeTypes ==
    /\ job = "compile" /\ pc = "native"
    /\ LET r == _native_types(output)
       IN  IF r.ok
           THEN /\ output' = r.code
                /\ steps' = Append(steps, "native")
                /\ pc' = "check"
                /\ UNCHANGED error
           ELSE /\ pc' = "raise"
                /\ error' = r.error
                /\ UNCHANGED <<output, steps>>
    /\ UNCHANGED <<inputVars, optVars, subroutine, location, pending, order,
                   symbolic, result>>

\* check(output), called directly or as compile's last step
Check ==
    /\ job \in {"check", "compile"} /\ pc = "check"
    /\ LET r == check(output)
       IN  IF r.ok
           THEN /\ result' = r.code
                /\ steps' = Append(steps, "check")
                /\ pc' = "ret"
                /\ UNCHANGED error
           ELSE /\ pc' = "raise"
                /\ error' = r.error
                /\ UNCHANGED <<result, steps>>
    /\ UNCHANGED <<inputVars, optVars, output, subroutine, location,
                   pending, order, symbolic>>

Next ==
    \/ LoopTop
    \/ ForLoop
    \/ Return
    \/ SplitStep
    \/ ExpandStep
    \/ TerminateMain
    \/ OptimizeMain
    \/ Concat
    \/ Resolve
    \/ NativeTypes
    \/ Check

Spec == Init /\ [][Next]_vars

\* optimized() alone, called on the lists of at most MaxLoopLen items.  The
\* call runs in one thread that always takes its next step, so no step that
\* can be taken is put off for ever.
MaxLoopLen == 2

InitLoop == InitOpt /\ Len(tokens) <= MaxLoopLen

OptNext ==
    \/ LoopTop
    \/ ForLoop
    \/ Return

FairSpec == InitLoop /\ [][OptNext]_vars /\ WF_vars(OptNext)

\* ------------------------------------------------ stack-machine runtime
\* The external runtime, as far as the instructions used here go: what it
\* does with a program given as tokens, from an empty stack.  ip is the
\* 0-based address of the next item; a jump sets it to the address popped.
Push(st, x) == Append(st, x)
Top(st) == st[Len(st)]
Pop(st, n) == SubSeq(st, 1, Len(st) - n)

Outcome(status, st, io) == [status |-> status, stack |-> st, io |-> io]

BinaryFns == {add, sub, mul, div, mod, bitwise_and, bitwise_or, bitwise_xor,
              less, greater, equal}

RECURSIVE RunFrom(_, _, _, _, _)
\* the instruction f at address ip
RunInstr(prog, ip, st, io, fuel, f) ==
    LET n == Len(st)
    IN  CASE f \in BinaryFns ->
               IF n < 2 \/ ~isnumber(st[n]) \/ ~isnumber(st[n - 1])
                  \/ (f \in {div, mod} /\ Num(st[n]) = 0)
               THEN Outcome("error", st, io)
               ELSE RunFrom(prog, ip + 1,
                            Push(Pop(st, 2), BinaryOp(f, st[n - 1], st[n])), io, fuel - 1)
          [] f = dup ->
               IF n < 1 THEN Outcome("error", st, io)
               ELSE RunFrom(prog, ip + 1, Push(st, st[n]), io, fuel - 1)
          [] f = drop ->
               IF n < 1 THEN Outcome("error", st, io)
               ELSE RunFrom(prog, ip + 1, Pop(st, 1), io, fuel - 1)
          [] f = swap ->
               IF n < 2 THEN Outcome("error", st, io)
               ELSE RunFrom(prog, ip + 1, Pop(st, 2) \o <<st[n], st[n - 1]>>, io, fuel - 1)
          [] f = over ->
               IF n < 2 THEN Outcome("error", st, io)
               ELSE RunFrom(prog, ip + 1, Push(st, st[n - 1]), io, fuel - 1)
          [] f = cast_int ->
               IF n < 1 \/ (st[n].k = "str" /\ ~PyInt(st[n].v).ok)
               THEN Outcome("error", st, io)
               ELSE RunFrom(prog, ip + 1,
                            Push(Pop(st, 1), IF st[n].k = "str" THEN PInt(PyInt(st[n].v).n)
                                             ELSE PInt(Num(st[n]))), io, fuel - 1)
          [] f = cast_str ->
               IF n < 1 THEN Outcome("error", st, io)
               ELSE RunFrom(prog, ip + 1,
                            Push(Pop(st, 1), IF st[n].k = "str" THEN st[n]
                                             ELSE PStr(PyStr(st[n]))), io, fuel - 1)
          [] f = cast_bool ->
               IF n < 1 THEN Outcome("error", st, io)
               ELSE RunFrom(prog, ip + 1, Push(Pop(st, 1), PBool(PyBool(st[n]))), io, fuel - 1)
          [] f = true_ -> RunFrom(prog, ip + 1, Push(st, PBool(TRUE)), io, fuel - 1)
          [] f = false_ -> RunFrom(prog, ip + 1, Push(st, PBool(FALSE)), io, fuel - 1)
          [] f = jmp ->
               IF n < 1 \/ st[n].k # "int" \/ st[n].v < 0 THEN Outcome("error", st, io)
               ELSE RunFrom(prog, st[n].v, Pop(st, 1), io, fuel - 1)
          [] f = write ->
               IF n < 1 THEN Outcome("error", st, io)
               ELSE RunFrom(prog, ip + 1, Pop(st, 1), Append(io, st[n]), fuel - 1)
          [] f = nop -> RunFrom(prog, ip + 1, st, io, fuel - 1)
          [] f = exit -> Outcome("ok", st, io)
          [] OTHER -> Outcome("unsupported", st, io)

RunFrom(prog, ip, st, io, fuel) ==
    IF ip >= Len(prog) THEN Outcome("ok", st, io)
    ELSE IF fuel = 0 THEN Outcome("running", st, io)
    ELSE LET op == prog[ip + 1]
         IN  IF isnumber(op) THEN RunFrom(prog, ip + 1, Push(st, op), io, fuel - 1)
             ELSE IF op.k = "str" /\ op.v # << >> /\ IsQuoted(op)
             THEN RunFrom(prog, ip + 1, Push(st, PStr(Slice(op.v))), io, fuel - 1)
             ELSE RunInstr(prog, ip, st, io, fuel, lookup(op))

Run(prog) == RunFrom(prog, 0, << >>, << >>, ExecFuel)

\* Two runs end alike: same status, and stacks and output equal item by item
\* under Python's ==.
SameItems(xs, ys) ==
    /\ Len(xs) = Len(ys)
    /\ \A i \in 1..Len(xs) : PyEq(xs[i], ys[i])
SameOutcome(r1, r2) ==
    /\ r1.status = r2.status
    /\ SameItems(r1.stack, r2.stack)
    /\ SameItems(r1.io, r2.io)

\* ------------------------------------------------------------- claims
OptReturned == job = "opt" /\ pc = "ret"

\* C1: executing optimize(code) from an empty stack ends with the same stack
\* and the same output as executing code, for every code that runs to its
\* end (control flow with literal addresses included).
C1_OptimizedRunsAlike ==
    (OptReturned /\ ignore_errors /\ Run(tokens).status = "ok")
        => SameOutcome(Run(result), Run(tokens))

\* C2: optimize terminates on every input: it reaches its return (or, in
\* strict mode, its raise).
C2_OptimizeTerminates ==
    (job = "opt") => <>(pc \in {"ret", "raise"})

\* C3: in non-strict mode, optimizing what optimize returned returns it
\* unchanged.
C3_Idempotent ==
    (OptReturned /\ ignore_errors)
        => LET again == optimized(result, TRUE)
           IN  again.status = "ok" /\ again.code = result

\* C3's case: a result that took at least two rewrites to reach.
C3_Witness ==
    OptReturned /\ ignore_errors /\ nrewrites >= 2 /\ result # tokens

\* ------------------------------------------------ the linked program
Compiled == job = "compile" /\ pc = "ret"

\* The main code and the subroutine bodies as compile adds them to output,
\* recomputed from the tokens.
ExpandedBody(name) ==
    ExpandCalls(Split(tokens).subroutine[name], Split(tokens).subroutine)

MainPart ==
    CompileOptimized(
        ExpandCalls(Split(tokens).output, subroutine)
            \o (IF DOMAIN subroutine # {} THEN <<lookup(exit)>> ELSE << >>)).code
BodyOf(name) == CompileOptimized(ExpandedBody(name)).code

RECURSIVE BodiesLen(_, _)
BodiesLen(names, n) ==
    IF n = 0 THEN 0 ELSE BodiesLen(names, n - 1) + Len(BodyOf(names[n]))

PlaceOf(name) == CHOOSE n \in 1..Len(order) : order[n] = name

\* The 0-based index at which the body of name begins in the linked program:
\* after the main code and the bodies added before it.
BeginOf(name) == Len(MainPart) + BodiesLen(order, PlaceOf(name) - 1)

BodyBeginsAt(name, t) ==
    /\ t = BeginOf(name)
    /\ t + Len(BodyOf(name)) <= Len(symbolic)
    /\ SubSeq(symbolic, t + 1, t + Len(BodyOf(name))) = BodyOf(name)

\* C4: after a successful compile, with or without optimization and in
\* whatever order the subroutine table was iterated, every item that refers
\* to a subroutine, in the main code or in a subroutine body, has been
\* replaced by the index at which that subroutine's body begins in the
\* linked program.
C4_TargetsAreStarts ==
    Compiled =>
        /\ Len(result) = Len(symbolic)
        /\ \A i \in 1..Len(symbolic) :
              InDict(symbolic[i], subroutine) =>
                  /\ result[i].k = "int"
                  /\ BodyBeginsAt(symbolic[i], result[i].v)

\* f and g are both defined, g was added first and optimization shortened
\* it, and f is referred to from the main code and from its own body.
C4_Witness ==
    /\ Compiled /\ optimize
    /\ order = <<NameG, NameF>>
    /\ Len(BodyOf(NameG)) < Len(ExpandedBody(NameG))
    /\ \E i \in 1..Len(MainPart) : symbolic[i] = NameF
    /\ \E i \in (BeginOf(NameF) + 1)..Len(symbolic) : symbolic[i] = NameF

\* ----------------------------------------------- zero divisors in compile
ZeroDivTriple(xs) ==
    \E i \in 1..(Len(xs) - 2) :
        /\ isnumber(xs[i])
        /\ xs[i + 1] = PInt(0)
        /\ xs[i + 2] \in {lookup(div), lookup(mod)}

PlainArithmetic(xs) ==
    \A i \in 1..Len(xs) : isnumber(xs[i]) \/ xs[i] \in {lookup(div), lookup(mod)}

\* Tokens with nothing wrong but the triple: numbers and div/mod only, as
\* the main code or as the body of the one subroutine f.
ZeroDivTokens ==
    /\ ZeroDivTriple(tokens)
    /\ \/ PlainArithmetic(tokens)
       \/ /\ Len(tokens) >= 3
          /\ tokens[1] = OPEN /\ tokens[2] = NameF /\ tokens[Len(tokens)] = CLOSE
          /\ PlainArithmetic(SubSeq(tokens, 3, Len(tokens) - 1))

CompileEnded == job = "compile" /\ pc \in {"ret", "raise"}

\* C5: compile with its default settings (optimize=True), given tokens that
\* hold <number> 0 div (or mod) in the main code or in a subroutine body,
\* succeeds, and the triple is still in the linked program.
C5_ZeroDivisionDeferred ==
    (CompileEnded /\ optimize /\ ZeroDivTokens)
        => (pc = "ret" /\ ZeroDivTriple([i \in 1..Len(result) |->
                IF result[i].k = "fn" THEN lookup(result[i]) ELSE result[i]]))

\* --------------------------------------------------- the order of steps
\* C6: when compile calls the validator, the program it passes is the
\* resolved program with its literals still string-encoded: nothing has
\* been materialized before validation.
C6_ValidatedBeforeMaterialized ==
    (job = "compile" /\ pc = "check") => output = ResolveRefs(symbolic, location)

\* ------------------------------------------------------ reserved names
IsMnemonic(x) == x.k = "str" /\ lookup(x).k = "fn"
IsReservedName(x) == IsMnemonic(x) \/ x \in {OPEN, CLOSE}

OpenThenReserved(xs) ==
    \E i \in 1..(Len(xs) - 1) : xs[i] = OPEN /\ IsReservedName(xs[i + 1])

\* The first index after the CLOSE that ends a definition whose body starts
\* at i, or past the end when there is none.
RECURSIVE AfterClose(_, _)
AfterClose(xs, i) ==
    IF i > Len(xs) THEN i
    ELSE IF xs[i] = CLOSE THEN i + 1
    ELSE AfterClose(xs, i + 1)

\* The indices from i on of the tokens that stand outside every definition.
RECURSIVE TopLevelFrom(_, _)
TopLevelFrom(xs, i) ==
    IF i > Len(xs) THEN {}
    ELSE {i} \cup TopLevelFrom(xs, IF xs[i] = OPEN THEN AfterClose(xs, i + 2)
                                                ELSE i + 1)

TopLevelOpenThenReserved(xs) ==
    \E i \in TopLevelFrom(xs, 1) :
        i < Len(xs) /\ xs[i] = OPEN /\ IsReservedName(xs[i + 1])

\* C7: whenever an OPEN is followed by a mnemonic or a delimiter, anywhere
\* in the tokens, compile ends by raising CompileError and returns no
\* program.
C7_AnyOpenThenReservedRaises ==
    (CompileEnded /\ OpenThenReserved(tokens))
        => (pc = "raise" /\ error = "CompileError" /\ result = << >>)

\* The part of it that the split loop does enforce: an OPEN that stands
\* outside every definition and is followed by a mnemonic or a delimiter.
TopLevelReservedRaises ==
    (CompileEnded /\ TopLevelOpenThenReserved(tokens))
        => (pc = "raise" /\ error = "CompileError" /\ result = << >>)

\* ---------------------------------------------------------- error kinds
\* C8: whenever compile fails, the error raised is a CompileError.
C8_OnlyCompileError ==
    (job = "compile" /\ pc = "raise") => error = "CompileError"

\* ------------------------------------------------- main code and Exit
\* The main code the tokens give, expanded, and what optimization makes of
\* it on its own.
UserMain == ExpandCalls(Split(tokens).output, subroutine)
UserMainCode == CompileOptimized(UserMain).code

Starts == {location[n] : n \in DOMAIN location}
LowestStart == CHOOSE t \in Starts : \A u \in Starts : t <= u

\* The main-body items of the linked program: those before the lowest
\* subroutine start, or all of them when there is no subroutine.
MainItems ==
    IF DOMAIN subroutine = {} THEN result ELSE SubSeq(result, 1, LowestStart)

\* C9 as stated: in the linked program an Exit is the last main-body item
\* if and only if at least one subroutine was defined.
C9_ExitLastIffSubroutines ==
    Compiled =>
        ((MainItems # << >> /\ MainItems[Len(MainItems)] = exit)
            <=> DOMAIN subroutine # {})

\* C9, amended: compile appends an Exit to the main code if and only if at
\* least one subroutine was defined.  With subroutines the linked program
\* is the optimized main code, then that Exit as the item immediately
\* before the lowest subroutine start, then nothing but the subroutine
\* bodies; with none it is the optimized main code and nothing more.
C9_ExitAppendedIffSubroutines ==
    Compiled =>
        IF DOMAIN subroutine # {}
        THEN /\ LowestStart = Len(UserMainCode) + 1
             /\ SubSeq(symbolic, 1, LowestStart) = UserMainCode \o <<lookup(exit)>>
             /\ result[LowestStart] = exit
             /\ Len(symbolic) = LowestStart + BodiesLen(order, Len(order))
             /\ \A n \in DOMAIN subroutine : BodyBeginsAt(n, location[n])
        ELSE symbolic = UserMainCode

\* Subroutines are defined and optimization shortened the main code.
C9_Witness ==
    /\ Compiled /\ optimize
    /\ DOMAIN subroutine # {}
    /\ UserMain # << >>
    /\ Len(UserMainCode) < Len(UserMain)

\* ------------------------------------------ validation after optimization
QuotedLiteral(x) == x.k = "str" /\ Len(x.v) >= 2 /\ IsQuoted(x)

StringThenInt(xs) ==
    Len(xs) = 2 /\ QuotedLiteral(xs[1]) /\ xs[2] = lookup(cast_int)

\* C10: compiling, with optimization, a string literal followed by int
\* yields the integer when the string's content parses as one and raises
\* CompileError when it does not; the validator applied to the pair itself
\* raises CompileError either way.
C10_StringToIntValidated ==
    /\ (CompileEnded /\ optimize /\ StringThenInt(tokens)) =>
          LET n == PyInt(Slice(tokens[1].v))
          IN  IF n.ok
              THEN pc = "ret" /\ result = <<PInt(n.n)>>
              ELSE pc = "raise" /\ error = "CompileError"
    /\ (job = "check" /\ pc # "check" /\ StringThenInt(tokens)) =>
          (pc = "raise" /\ error = "CompileError")

\* ------------------------------------------------------- the validator
CheckEnded == job = "check" /\ pc # "check"

BoolLiteral(x) == x.k = "bool" \/ x \in {lookup(true_), lookup(false_)}
LiteralItem(x) == x.k \in {"int", "bool"} \/ QuotedLiteral(x) \/ BoolLiteral(x)
KnownItem(x) == LiteralItem(x) \/ lookup(x) # UnknownInstruction
ToInt(x) == x \in {cast_int, lookup(cast_int)}
Connective(x) ==
    x \in {binary_and, binary_or, binary_not,
           lookup(binary_and), lookup(binary_or), lookup(binary_not)}

\* (a) an item that is neither a literal nor resolvable by lookup
HasUnknownItem(xs) == \E i \in 1..Len(xs) : ~KnownItem(xs[i])
\* (b) a string literal immediately followed by a to-int cast
HasStringToInt(xs) ==
    \E i \in 1..(Len(xs) - 1) : QuotedLiteral(xs[i]) /\ ToInt(xs[i + 1])
\* (c) a non-boolean literal immediately followed by and/or/not
HasNonBoolConnective(xs) ==
    \E i \in 1..(Len(xs) - 1) :
        LiteralItem(xs[i]) /\ ~BoolLiteral(xs[i]) /\ Connective(xs[i + 1])

\* C11: the validator raises CompileError on every sequence that holds an
\* unknown item, a string literal followed by to-int, or a non-boolean
\* literal followed by and/or/not, and leaves the sequence as it was.
C11_ValidatorRejects ==
    (CheckEnded /\ (HasUnknownItem(tokens) \/ HasStringToInt(tokens)
                        \/ HasNonBoolConnective(tokens)))
        => (pc = "raise" /\ error = "CompileError" /\ output = tokens)

\* C17: the validator accepts, and returns unchanged, every sequence of
\* known items with no string literal followed by to-int and no non-boolean
\* literal followed by and/or/not; a connective after an opcode is accepted.
C17_ValidatorAccepts ==
    (CheckEnded /\ ~HasUnknownItem(tokens) /\ ~HasStringToInt(tokens)
                /\ ~HasNonBoolConnective(tokens))
        => (pc = "ret" /\ result = tokens)

\* ------------------------------------------------------------ the split
SplitReturned == job = "compile" /\ pc = "expand"

\* The OPENs outside every definition that have a name after them, and the
\* other tokens outside every definition.
TopOpens ==
    {i \in TopLevelFrom(tokens, 1) : tokens[i] = OPEN /\ i < Len(tokens)}
MainIndices == {i \in TopLevelFrom(tokens, 1) : tokens[i] # OPEN}

\* The items of xs at the indices in S, from index i on, in their order.
RECURSIVE Pick(_, _, _)
Pick(xs, i, S) ==
    IF i > Len(xs) THEN << >>
    ELSE (IF i \in S THEN <<xs[i]>> ELSE << >>) \o Pick(xs, i + 1, S)

\* For the definition opened at i: the index of its CLOSE, if it has one.
CloseIndex(i) == AfterClose(tokens, i + 2) - 1
Terminated(i) ==
    /\ CloseIndex(i) >= i + 2 /\ CloseIndex(i) <= Len(tokens)
    /\ tokens[CloseIndex(i)] = CLOSE

DefinedBody(i) ==
    IF Terminated(i)
    THEN SubSeq(tokens, i + 2, CloseIndex(i) - 1) \o <<lookup(return_)>>
    ELSE SubSeq(tokens, i + 2, Len(tokens))

LastDefinition(i) ==
    \A j \in TopOpens : tokens[j + 1] = tokens[i + 1] => j <= i

\* C12: after the split the main code is the tokens outside every
\* definition, in their order; every OPEN outside a definition names a
\* subroutine by the next token, whose body is the tokens up to the CLOSE
\* plus one return, or, when the input ends first, the tokens up to the end
\* and no return; the split raises nothing for an unterminated definition.
C12_SplitPartitions ==
    SplitReturned =>
        /\ output = Pick(tokens, 1, MainIndices)
        /\ DOMAIN subroutine = {tokens[i + 1] : i \in TopOpens}
        /\ \A i \in TopOpens :
              LastDefinition(i) => subroutine[tokens[i + 1]] = DefinedBody(i)

\* Main code before and between a complete definition and an unterminated
\* one.
C12_Witness ==
    /\ SplitReturned
    /\ Len(output) >= 2
    /\ \E i \in TopOpens : Terminated(i) /\ Len(DefinedBody(i)) >= 2
    /\ \E i \in TopOpens : ~Terminated(i) /\ Len(DefinedBody(i)) >= 1

\* ------------------------------------------------------- the expansion
Expanded == job = "compile" /\ pc = "terminate"

IsName(x) == x \in DOMAIN subroutine

\* ys is xs with one call inserted after each subroutine name and nothing
\* else added, removed or moved.
IsExpansionOf(ys, xs) ==
    /\ Len(ys) = Len(xs) + Cardinality({i \in 1..Len(xs) : IsName(xs[i])})
    /\ \A i \in 1..Len(xs) :
          LET k == i + Cardinality({j \in 1..(i - 1) : IsName(xs[j])})
          IN  /\ ys[k] = xs[i]
              /\ IsName(xs[i]) => ys[k + 1] = lookup(call)

ExpansionIsExact ==
    Expanded =>
        /\ IsExpansionOf(output, Split(tokens).output)
        /\ \A n \in DOMAIN subroutine :
              IsExpansionOf(subroutine[n], Split(tokens).subroutine[n])

\* In the linked program every reference is an integer immediately followed
\* by call, and no name is left.
LinkedPairs ==
    Compiled =>
        \A i \in 1..Len(symbolic) :
            IsName(symbolic[i]) =>
                /\ result[i].k = "int"
                /\ i < Len(result) /\ result[i + 1] = call

\* C13: after the expansion every token equal to a subroutine name, in the
\* main code and in every body, is followed by one inserted call and nothing
\* else has changed; in the linked program each such pair is an integer
\* address immediately followed by call.
C13_CallsExpandedAndLinked == ExpansionIsExact /\ LinkedPairs

\* ------------------------------------------------- the rules' patterns
ItemAt(xs, i) == IF i >= 1 /\ i <= Len(xs) THEN xs[i] ELSE PNone

\* <number> 0 div|mod at index i
ZeroDivAt(xs, i) ==
    /\ isnumber(ItemAt(xs, i)) /\ isnumber(ItemAt(xs, i + 1))
    /\ Num(ItemAt(xs, i + 1)) = 0
    /\ ItemAt(xs, i + 2) \in {lookup(div), lookup(mod)}

ArithmeticNames ==
    {lookup(add), lookup(bitwise_and), lookup(bitwise_or), lookup(bitwise_xor),
     lookup(div), lookup(equal), lookup(greater), lookup(less), lookup(mod),
     lookup(mul), lookup(sub)}

\* The rules in the order of the source.
RuleOrder == <<"fold", "dup", "drop", "intint", "strstr", "boolbool", "swap",
               "over", "strint", "tostr", "tobool">>

\* The pattern of rule r matches at index i of xs.
PatternAt(r, xs, i) ==
    LET a == ItemAt(xs, i)
        b == ItemAt(xs, i + 1)
        c == ItemAt(xs, i + 2)
    IN  CASE r = "fold" -> /\ isnumber(a) /\ isnumber(b) /\ c \in ArithmeticNames
                           /\ ~ZeroDivAt(xs, i)
          [] r = "dup" -> isconstant(a) /\ b = lookup(dup)
          [] r = "drop" -> isconstant(a) /\ b = lookup(drop)
          [] r = "intint" -> a.k \in {"int", "bool"} /\ b = lookup(cast_int)
          [] r = "strstr" -> a.k = "str" /\ b = lookup(cast_str)
          [] r = "boolbool" -> a.k = "bool" /\ b = lookup(cast_bool)
          [] r = "swap" -> isconstant(a) /\ isconstant(b) /\ c = lookup(swap)
          [] r = "over" -> isconstant(a) /\ isconstant(b) /\ c = lookup(over)
          [] r = "strint" -> /\ isstring(a) /\ b = lookup(cast_int)
                             /\ PyInt(Slice(a.v)).ok
          [] r = "tostr" -> isconstant(a) /\ b = lookup(cast_str)
          [] r = "tobool" -> isconstant(a) /\ b = lookup(cast_bool)

MatchesAt(xs, i) == \E n \in 1..Len(RuleOrder) : PatternAt(RuleOrder[n], xs, i)
FirstRuleAt(xs, i) ==
    RuleOrder[CHOOSE n \in 1..Len(RuleOrder) :
                /\ PatternAt(RuleOrder[n], xs, i)
                /\ \A m \in 1..(n - 1) : ~PatternAt(RuleOrder[m], xs, i)]

\* The indices at which a pass stops: a match, or in strict mode a zero
\* divisor.
StopsAt(xs, strict) ==
    {i \in 1..Len(xs) : MatchesAt(xs, i) \/ (strict /\ ZeroDivAt(xs, i))}
Lowest(S) == CHOOSE i \in S : \A j \in S : i <= j

\* One pass: with no index to stop at the list is left alone and the loop
\* ends; otherwise the pass stops at the lowest such index, with the
\* earliest rule that matches there, and another pass from the start follows.
OnePass ==
    (job = "opt" /\ pc = "for") =>
        IF StopsAt(code, ~ignore_errors) = {}
        THEN pc' = "while" /\ ~keep_running' /\ code' = code /\ last' = last
        ELSE LET i == Lowest(StopsAt(code, ~ignore_errors))
             IN  IF MatchesAt(code, i)
                 THEN /\ pc' = "while" /\ keep_running'
                      /\ last' = [rule |-> FirstRuleAt(code, i), index |-> i]
                 ELSE pc' = "raise" /\ code' = code

ReturnedHasNoMatch ==
    OptReturned => \A i \in 1..Len(result) : ~MatchesAt(result, i)

\* C14: each pass of optimize applies one rewrite, at the lowest index at
\* which a rule matches and with the earliest rule matching there, and the
\* next pass starts from the beginning again; what optimize returns has no
\* index at which a rule matches (zero-divisor triples aside).
C14_FirstMatchLowestIndex == [][OnePass]_vars /\ []ReturnedHasNoMatch

\* A pass found nothing at the first index and two rules (<str> str and
\* <constant> str) at the second.
C14_Witness ==
    /\ job = "opt" /\ pc = "while" /\ keep_running
    /\ last = [rule |-> "strstr", index |-> 2]

\* ------------------------------------------------- postfix expressions
\* The stack left by reading xs from index i as a postfix expression over
\* numbers and the foldable operators; ok is FALSE when an item is neither,
\* an operator lacks operands, or div/mod meets a zero divisor.
RECURSIVE Postfix(_, _, _)
Postfix(xs, i, st) ==
    IF i > Len(xs) THEN [ok |-> TRUE, stack |-> st]
    ELSE IF xs[i].k = "int" THEN Postfix(xs, i + 1, Append(st, xs[i]))
    ELSE IF xs[i] \in ArithmeticNames /\ Len(st) >= 2
            /\ ~(xs[i] \in {lookup(div), lookup(mod)} /\ Num(st[Len(st)]) = 0)
    THEN Postfix(xs, i + 1,
                 Append(SubSeq(st, 1, Len(st) - 2),
                        BinaryOp(lookup(xs[i]), st[Len(st) - 1], st[Len(st)])))
    ELSE [ok |-> FALSE, stack |-> st]

WellFormedPostfix(xs) ==
    Postfix(xs, 1, << >>).ok /\ Len(Postfix(xs, 1, << >>).stack) = 1
PostfixValue(xs) == Postfix(xs, 1, << >>).stack[1]

\* C15: a well-formed postfix expression over numbers and foldable
\* operators, with no zero divisor anywhere in its evaluation, is optimized
\* to the single literal that is its value, however deeply it nests, and
\* optimize does not raise on it.
C15_PostfixFoldsToValue ==
    (job = "opt" /\ WellFormedPostfix(tokens)) =>
        /\ pc # "raise"
        /\ pc = "ret" => result = <<PostfixValue(tokens)>>

\* A nested expression: five items, folded in two rewrites.
C15_Witness ==
    /\ OptReturned /\ WellFormedPostfix(tokens)
    /\ Len(tokens) >= 5 /\ nrewrites = 2

\* ------------------------------------------- zero divisors in optimize
\* C16: in non-strict mode a <number> 0 div|mod triple of the input is
\* never folded and never raises: the returned sequence still holds it, and
\* nothing else in the returned sequence matches a rule; in strict mode
\* optimize does not return on such an input, it raises.
C16_ZeroDivisorLeftAlone ==
    (job = "opt" /\ ZeroDivTriple(tokens)) =>
        IF ignore_errors
        THEN /\ pc # "raise"
             /\ pc = "ret" =>
                   /\ ZeroDivTriple(result)
                   /\ \A i \in 1..Len(result) : ~MatchesAt(result, i)
        ELSE pc # "ret"

\* ---------------------------------------------------- counting opcodes
OpcodeCount(xs) == Cardinality({i \in 1..Len(xs) : ~LiteralItem(xs[i])})

\* C18: every rewrite takes exactly one opcode out of the sequence and never
\* lengthens it: the returned sequence is no longer than the input, has as
\* many opcodes fewer as rewrites were made, and the rewrites are at most
\* the opcodes of the input.
C18_EachRewriteRemovesOneOpcode ==
    (OptReturned /\ nrewrites < MaxRewrites) =>
        /\ Len(result) <= Len(tokens)
        /\ OpcodeCount(result) = OpcodeCount(tokens) - nrewrites
        /\ nrewrites <= OpcodeCount(tokens)

\* ---------------------------------------------------- the caller's list
\* C19: when optimized(code) returns, the list the caller passed in holds
\* the same sequence as the result returned.
C19_CallerListIsResult == OptReturned => arg = result
====
